---- MODULE Spec2Model ----
(***************************************************************************)
(* Player-report derivation pipeline of the NBA dashboard (src/code.py):   *)
(* get_player_id, get_player_data_package and analyze_style.               *)
(*                                                                         *)
(* Numbers.  The provider's tables are pandas DataFrames, so every cell    *)
(* read from a row (season_stats.iloc[-1][...], career_totals_df.loc[0,    *)
(* ...]) is a numpy scalar: int64 / int64 is a float64, round(float64, n)  *)
(* is a float64, and float64 division by zero gives inf or nan with a      *)
(* warning, never ZeroDivisionError.  A float is modelled as a record      *)
(* [k, v]: k = "fin" with v the value in tenths (hundredths for the        *)
(* assist/turnover ratio), or k = "inf", "ninf", "nan".  The string 'N/A'  *)
(* of the source is the record NA.                                         *)
(***************************************************************************)
EXTENDS Integers, Sequences, FiniteSets, TLC

\* ---------------------------------------------------------------- bounds
MaxGP == 4
MaxTotal == 3
MaxRows == 2
MaxTrendPts == 4
MaxTrendPct == 4
MaxAwards == 2

\* ---------------------------------------------------------------- values
NA == [k |-> "NA", v |-> 0]
Fin(x) == [k |-> "fin", v |-> x]
PInf == [k |-> "inf", v |-> 0]
NaN == [k |-> "nan", v |-> 0]

\* Python's slice/selection helpers
Last(s) == s[Len(s)]

\* str.lower() on the characters names are made of
Lower(s) ==
    [i \in 1..Len(s) |->
        CASE s[i] = "A" -> "a"
          [] s[i] = "B" -> "b"
          [] OTHER -> s[i]]

\* round half to even of num/den (den > 0, num >= 0): what round(x, n) gives
\* when x is the float64 quotient of two integers
RoundHalfEven(num, den) ==
    LET q == num \div den
        r2 == 2 * (num % den)
    IN  IF r2 > den THEN q + 1
        ELSE IF r2 < den THEN q
        ELSE IF q % 2 = 0 THEN q ELSE q + 1

\* round(x, n) of a product or quotient of floats that are not exact in binary
\* (0.3 / 0.8 is 0.37499999999999994): away from a decimal tie the nearest
\* value, on a decimal tie either neighbour
RoundNear(num, den) ==
    LET q == num \div den
        r2 == 2 * (num % den)
    IN  IF r2 > den THEN {q + 1}
        ELSE IF r2 < den THEN {q}
        ELSE {q, q + 1}

\* round(total / gp, 1) on numpy integers, in tenths
AvgPerGameTrunc(total, gp) ==
    IF gp = 0
    THEN IF total = 0 THEN NaN ELSE PInf
    ELSE Fin((10 * total) \div gp)

AvgPerGame(total, gp) ==
    IF gp = 0
    THEN IF total = 0 THEN NaN ELSE PInf
    ELSE Fin(RoundHalfEven(10 * total, gp))

\* round(frac * 100, 1): frac is the stored fraction in units of 1/10000,
\* the results are in tenths of a percent
Pct(frac) == {Fin(r) : r \in RoundNear(frac, 10)}

\* try: round(ast / tov, 2) except ZeroDivisionError: 'N/A', in hundredths.
\* ast and tov are float64 results of round(), so a zero tov gives inf (nan
\* for 0.0 / 0.0) and the except clause is never entered.
AtoRatio(ast, tov) ==
    IF tov.v = 0
    THEN IF ast.v = 0 THEN {NaN} ELSE {PInf}
    ELSE {Fin(r) : r \in RoundNear(100 * ast.v, tov.v)}

\* ------------------------------------------------------- float deltas
\* a - b of two float64 values that each hold a one-decimal number.  The
\* binary subtraction is exact when an operand is 0, when both are equal and
\* when both are multiples of 0.5; otherwise the result may sit one rounding
\* error below or above the decimal difference (4.1 - 1.1 is
\* 2.9999999999999996, 4.4 - 1.4 is 3.0000000000000004).  A delta is
\* [k, v, e]: v the decimal difference in tenths, e in {-1, 0, 1} the side
\* of the rounding error.
FloatSub(a, b) ==
    IF a.k = "nan" \/ b.k = "nan" THEN {[k |-> "nan", v |-> 0, e |-> 0]}
    ELSE IF b.k = "inf" THEN {[k |-> "ninf", v |-> 0, e |-> 0]}
    ELSE IF a.v = 0 \/ b.v = 0 \/ a.v = b.v \/ (a.v % 5 = 0 /\ b.v % 5 = 0)
    THEN {[k |-> "fin", v |-> a.v - b.v, e |-> 0]}
    ELSE {[k |-> "fin", v |-> a.v - b.v, e |-> e] : e \in {-1, 0, 1}}

\* d >= c, d < c, d > c and abs(d) < c for a delta d and a constant c given
\* in tenths; every comparison with nan is false
Ge(d, c) ==
    CASE d.k = "fin" -> d.v > c \/ (d.v = c /\ d.e >= 0)
      [] d.k = "inf" -> TRUE
      [] OTHER -> FALSE

Lt(d, c) ==
    CASE d.k = "fin" -> d.v < c \/ (d.v = c /\ d.e < 0)
      [] d.k = "ninf" -> TRUE
      [] OTHER -> FALSE

Gt(d, c) ==
    CASE d.k = "fin" -> d.v > c \/ (d.v = c /\ d.e > 0)
      [] d.k = "inf" -> TRUE
      [] OTHER -> FALSE

AbsLt(d, c) ==
    d.k = "fin" /\ Lt(d, c) /\ Gt(d, 0 - c)

\* f"{'+' if delta > 0 else ''}{round(delta, 1)}" and the '%' suffix
FormatDelta(d, suffix) ==
    [sign |-> IF Gt(d, 0) THEN "+" ELSE "", num |-> [k |-> d.k, v |-> d.v],
     suffix |-> suffix]

\* ------------------------------------------------------ trend (248-270)
TrendStatusRule2Inclusive(delta_pts, delta_fg_pct) ==
    IF Ge(delta_pts, 30) /\ Ge(delta_fg_pct, -10) THEN "Significant Ascend"
    ELSE IF Ge(delta_pts, 30) /\ ~Gt(delta_fg_pct, -30) /\ delta_fg_pct.k # "nan"
         THEN "Inefficient Volume"
    ELSE IF AbsLt(delta_pts, 10) /\ Ge(delta_fg_pct, 10) THEN "Efficiency Spike"
    ELSE IF Lt(delta_pts, -30) THEN "Performance Decline"
    ELSE "Fluctuating Performance"

TrendStatusStrict(delta_pts, delta_fg_pct) ==
    IF Gt(delta_pts, 30) /\ Gt(delta_fg_pct, -10) THEN "Significant Ascend"
    ELSE IF Ge(delta_pts, 30) /\ Lt(delta_fg_pct, -30) THEN "Inefficient Volume"
    ELSE IF AbsLt(delta_pts, 10) /\ Ge(delta_fg_pct, 10) THEN "Efficiency Spike"
    ELSE IF Lt(delta_pts, -30) THEN "Performance Decline"
    ELSE "Fluctuating Performance"

TrendStatusNoAbs(delta_pts, delta_fg_pct) ==
    IF Ge(delta_pts, 30) /\ Ge(delta_fg_pct, -10) THEN "Significant Ascend"
    ELSE IF Ge(delta_pts, 30) /\ Lt(delta_fg_pct, -30) THEN "Inefficient Volume"
    ELSE IF Lt(delta_pts, 10) /\ Ge(delta_fg_pct, 10) THEN "Efficiency Spike"
    ELSE IF Lt(delta_pts, -30) THEN "Performance Decline"
    ELSE "Fluctuating Performance"

TrendStatus(delta_pts, delta_fg_pct) ==
    IF Ge(delta_pts, 30) /\ Ge(delta_fg_pct, -10) THEN "Significant Ascend"
    ELSE IF Ge(delta_pts, 30) /\ Lt(delta_fg_pct, -30) THEN "Inefficient Volume"
    ELSE IF AbsLt(delta_pts, 10) /\ Ge(delta_fg_pct, 10) THEN "Efficiency Spike"
    ELSE IF Lt(delta_pts, -30) THEN "Performance Decline"
    ELSE "Fluctuating Performance"

TrendNA ==
    [trend_status |-> "N/A", delta_pts |-> NA, delta_reb |-> NA,
     delta_ast |-> NA, delta_fg_pct |-> NA]

NoDelta == [k |-> "none", v |-> 0, e |-> 0]

\* lines 239-272: the trend block and the two deltas the classifier reads
Trend(avg, career_totals_df) ==
    IF career_totals_df = <<>>
    THEN {[trend_analysis |-> [TrendNA EXCEPT !.trend_status = "cannot compute career trend"],
           delta_pts |-> NoDelta, delta_fg_pct |-> NoDelta]}
    ELSE
      LET c == career_totals_df[1]
          total_gp_career == c.GP
          cpts == AvgPerGame(c.PTS, total_gp_career)
          creb == AvgPerGame(c.REB, total_gp_career)
          cast == AvgPerGame(c.AST, total_gp_career)
      IN  {[trend_analysis |->
               [delta_pts |-> FormatDelta(dp, ""),
                delta_reb |-> FormatDelta(dr, ""),
                delta_ast |-> FormatDelta(da, ""),
                delta_fg_pct |-> FormatDelta(df, "%"),
                trend_status |-> TrendStatus(dp, df)],
            delta_pts |-> dp, delta_fg_pct |-> df] :
              dp \in FloatSub(avg.pts, cpts),
              dr \in {[k |-> x.k, v |-> x.v, e |-> 0] : x \in FloatSub(avg.reb, creb)},
              da \in {[k |-> x.k, v |-> x.v, e |-> 0] : x \in FloatSub(avg.ast, cast)},
              df \in UNION {FloatSub(avg.fg_pct, cfg) : cfg \in Pct(c.FG_PCT)}}

\* ------------------------------------------------- lookup tables, text
\* A display string is a sequence of tokens; ", ".join puts the separator
\* token between the items.  The Chinese display names are written as
\* "zh_..." glosses.
Join(items) ==
    [i \in 1..(IF Len(items) = 0 THEN 0 ELSE 2 * Len(items) - 1) |->
        IF i % 2 = 1 THEN items[(i + 1) \div 2] ELSE ", "]

TEAM_ABBR_TO_ZH ==
    [a \in {"LAL", "MIA", "BOS", "TOT"} |->
        CASE a = "LAL" -> "zh_Lakers"
          [] a = "MIA" -> "zh_Heat"
          [] a = "BOS" -> "zh_Celtics"
          [] a = "TOT" -> "zh_MultiTeam"]

\* TEAM_ABBR_TO_ZH.get(a, a)
TeamZh(a) == IF a \in DOMAIN TEAM_ABBR_TO_ZH THEN TEAM_ABBR_TO_ZH[a] ELSE a

position_map_center_first ==
    [g \in {"Guard", "Forward", "Center", "G-F", "F-G", "F-C", "C-F", "G", "F", "C",
            "Guard-Forward", "Forward-Guard", "Forward-Center", "Center-Forward"} |->
        CASE g \in {"Guard", "G"} -> <<"PG", "SG">>
          [] g \in {"Forward", "F"} -> <<"SF", "PF">>
          [] g \in {"Center", "C"} -> <<"C">>
          [] g \in {"G-F", "Guard-Forward"} -> <<"PG", "SG", "SF">>
          [] g \in {"F-G", "Forward-Guard"} -> <<"SG", "SF", "PF">>
          [] g \in {"F-C", "Forward-Center"} -> <<"SF", "PF", "C">>
          [] g \in {"C-F", "Center-Forward"} -> <<"C", "PF", "SF">>]

position_map ==
    [g \in {"Guard", "Forward", "Center", "G-F", "F-G", "F-C", "C-F", "G", "F", "C",
            "Guard-Forward", "Forward-Guard", "Forward-Center", "Center-Forward"} |->
        CASE g \in {"Guard", "G"} -> <<"PG", "SG">>
          [] g \in {"Forward", "F"} -> <<"SF", "PF">>
          [] g \in {"Center", "C"} -> <<"C">>
          [] g \in {"G-F", "Guard-Forward"} -> <<"PG", "SG", "SF">>
          [] g \in {"F-G", "Forward-Guard"} -> <<"SG", "SF", "PF">>
          [] g \in {"F-C", "Forward-Center"} -> <<"SF", "PF", "C">>
          [] g \in {"C-F", "Center-Forward"} -> <<"PF", "C", "SF">>]

zh_map ==
    [p \in {"PG", "SG", "SF", "PF", "C"} |->
        CASE p = "PG" -> "zh_PointGuard"
          [] p = "SG" -> "zh_ShootingGuard"
          [] p = "SF" -> "zh_SmallForward"
          [] p = "PF" -> "zh_PowerForward"
          [] p = "C" -> "zh_Center"]

zh_generic_map ==
    [g \in DOMAIN position_map |->
        CASE g \in {"Guard", "G"} -> "zh_Guard"
          [] g \in {"Forward", "F"} -> "zh_Forward"
          [] g \in {"Center", "C"} -> "zh_Center"
          [] g \in {"G-F", "Guard-Forward"} -> "zh_Guard-Forward"
          [] g \in {"F-G", "Forward-Guard"} -> "zh_Forward-Guard"
          [] g \in {"F-C", "Forward-Center"} -> "zh_Forward-Center"
          [] g \in {"C-F", "Center-Forward"} -> "zh_Center-Forward"]

get_precise_positions(generic_position, translate_to_zh) ==
    IF generic_position \in DOMAIN position_map
    THEN LET positions == position_map[generic_position]
         IN  IF translate_to_zh
             THEN Join([i \in 1..Len(positions) |->
                          IF positions[i] \in DOMAIN zh_map
                          THEN zh_map[positions[i]] ELSE positions[i]])
             ELSE Join(positions)
    ELSE IF translate_to_zh
    THEN IF generic_position \in DOMAIN zh_generic_map
         THEN <<zh_generic_map[generic_position]>>
         ELSE <<generic_position>>
    ELSE <<generic_position>>

\* ------------------------------------------------------- get_player_id
\* The result is <<>> for None and <<id>> for an id.
get_player_id(player_name, directory) ==
    IF directory.raises THEN <<>>
    ELSE LET player_info ==
                 SelectSeq(directory.players,
                           LAMBDA p : Lower(p.full_name) = Lower(player_name))
         IN  IF player_info # <<>> THEN <<player_info[1].id>> ELSE <<>>

\* `not player_id`
NotPlayerId(player_id) == player_id = <<>> \/ player_id[1] = 0

\* ------------------------------------------- get_player_data_package
error_report(player_name, season, error) ==
    [error |-> error, name |-> player_name, team_abbr |-> <<"N/A">>,
     team_full |-> <<"N/A">>, precise_positions |-> <<"N/A">>,
     games_played |-> 0, pts |-> NA, reb |-> NA, ast |-> NA, stl |-> NA,
     blk |-> NA, tov |-> NA, ato_ratio |-> NA, fg_pct |-> NA, ft_pct |-> NA,
     fta_per_game |-> NA, min_per_game |-> NA, trend_analysis |-> TrendNA,
     awards |-> <<>>, contract_year |-> "N/A", salary |-> "N/A",
     season |-> <<season>>]

\* stats_data[stats_data['SEASON_ID'] == season]
SeasonStats(stats_data, season) ==
    SelectSeq(stats_data, LAMBDA r : r.SEASON_ID = season)

\* lines 199-212
TeamFields(season_stats) ==
    IF season_stats # <<>>
    THEN LET team_abbr_list ==
                 [i \in 1..Len(season_stats) |-> season_stats[i].TEAM_ABBREVIATION]
         IN  IF \E i \in 1..Len(team_abbr_list) : team_abbr_list[i] = "TOT"
             THEN LET abbrs == SelectSeq(team_abbr_list, LAMBDA a : a # "TOT")
                      zh_abbrs == [i \in 1..Len(abbrs) |-> TeamZh(abbrs[i])]
                  IN  [team_abbr |-> <<"zh_MultiTeam">>,
                       team_full |-> <<"zh_PlayedForSeveral: ">> \o Join(zh_abbrs)]
             ELSE LET abbr == team_abbr_list[1]
                  IN  [team_abbr |-> <<TeamZh(abbr)>>, team_full |-> <<TeamZh(abbr)>>]
    ELSE [team_abbr |-> <<"N/A">>, team_full |-> <<"zh_NoDataForSeason">>]

\* line 217: the guard of the averaging branch
HasAveragesNonNegative(season_stats) ==
    season_stats # <<>> /\ Last(season_stats).GP >= 0

HasAverages(season_stats) ==
    season_stats # <<>> /\ Last(season_stats).GP > 0

\* line 218: avg_stats = season_stats.iloc[-1]
AvgStats(season_stats) == Last(season_stats)

\* lines 219-237
Averages(avg_stats) ==
    LET total_gp == avg_stats.GP
        ast == AvgPerGame(avg_stats.AST, total_gp)
        tov == AvgPerGame(avg_stats.TOV, total_gp)
    IN  {[games_played |-> total_gp,
          pts |-> AvgPerGame(avg_stats.PTS, total_gp),
          reb |-> AvgPerGame(avg_stats.REB, total_gp),
          ast |-> ast,
          stl |-> AvgPerGame(avg_stats.STL, total_gp),
          blk |-> AvgPerGame(avg_stats.BLK, total_gp),
          tov |-> tov,
          fg_pct |-> fg, ft_pct |-> ft,
          fta_per_game |-> AvgPerGame(avg_stats.FTA, total_gp),
          min_per_game |-> AvgPerGame(avg_stats.MIN, total_gp),
          ato_ratio |-> ato] :
            fg \in Pct(avg_stats.FG_PCT), ft \in Pct(avg_stats.FT_PCT),
            ato \in AtoRatio(ast, tov)}

\* lines 278-282
NoSeasonFieldsPlainSeason(season) ==
    [games_played |-> 0, pts |-> NA, reb |-> NA, ast |-> NA, stl |-> NA,
     blk |-> NA, tov |-> NA, ato_ratio |-> NA, fg_pct |-> NA, ft_pct |-> NA,
     fta_per_game |-> NA, min_per_game |-> NA, contract_year |-> "N/A",
     salary |-> "N/A", season |-> <<season>>,
     trend_analysis |-> TrendNA]

NoSeasonFields(season) ==
    [games_played |-> 0, pts |-> NA, reb |-> NA, ast |-> NA, stl |-> NA,
     blk |-> NA, tov |-> NA, ato_ratio |-> NA, fg_pct |-> NA, ft_pct |-> NA,
     fta_per_game |-> NA, min_per_game |-> NA, contract_year |-> "N/A",
     salary |-> "N/A", season |-> <<"zh_No", season, "zh_SeasonData">>,
     trend_analysis |-> TrendNA]

\* lines 284-288: f"{DESCRIPTION} ({SEASON[:4]})"
FormatAwardsWholeSeason(awards_df) ==
    [i \in 1..Len(awards_df) |->
        <<awards_df[i].DESCRIPTION, " (">> \o awards_df[i].SEASON \o <<")">>]

FormatAwards(awards_df) ==
    [i \in 1..Len(awards_df) |->
        <<awards_df[i].DESCRIPTION, " (">>
        \o SubSeq(awards_df[i].SEASON, 1,
                  IF Len(awards_df[i].SEASON) < 4 THEN Len(awards_df[i].SEASON) ELSE 4)
        \o <<")">>]

\* The first exception raised inside the try block (lines 183-290), "none"
\* when it runs to the return of line 290.  The provider calls come first
\* (184, 187, 192); info_df.loc[0, ...] of an empty table is a KeyError (196).
FirstException(prov) ==
    IF prov.info.raises THEN "info"
    ELSE IF prov.stats.raises THEN "stats"
    ELSE IF prov.awards.raises THEN "awards"
    ELSE IF prov.info.rows = <<>> THEN "KeyError"
    ELSE "none"

\* line 292: except Exception
CaughtKeyErrorOnly(exc) == exc = "KeyError"

Caught(exc) == exc \in {"info", "stats", "awards", "KeyError"}

NoLocals ==
    [avg_stats |-> <<>>, divisors |-> <<>>, delta_pts |-> NoDelta,
     delta_fg_pct |-> NoDelta]

\* lines 195-290, reached when no provider call raised and info_df has a row
BuildReport(season, prov) ==
    LET info_df == prov.info.rows
        stats_data == prov.stats.rows
        career_totals_df == prov.stats.career
        awards_df == prov.awards.rows
        season_stats == SeasonStats(stats_data, season)
        generic_pos == info_df[1].POSITION
        head == [name |-> info_df[1].DISPLAY_FIRST_LAST,
                 position |-> generic_pos,
                 precise_positions |-> get_precise_positions(generic_pos, TRUE),
                 awards |-> FormatAwards(awards_df)]
               @@ TeamFields(season_stats)
    IN  IF HasAverages(season_stats)
        THEN LET avg_stats == AvgStats(season_stats)
             IN  UNION {
                   {[report |-> head @@ avg @@
                                [trend_analysis |-> t.trend_analysis,
                                 contract_year |-> "unavailable",
                                 salary |-> "unavailable",
                                 season |-> <<season>>],
                     outcome |-> "Report", raised |-> FALSE, tables |-> TRUE,
                     locals |-> [avg_stats |-> <<avg_stats>>,
                                 divisors |-> <<avg_stats.GP>> \o
                                     (IF career_totals_df = <<>> THEN <<>>
                                      ELSE <<career_totals_df[1].GP>>),
                                 delta_pts |-> t.delta_pts,
                                 delta_fg_pct |-> t.delta_fg_pct]] :
                       t \in Trend(avg, career_totals_df)} :
                   avg \in Averages(avg_stats)}
        ELSE {[report |-> head @@ NoSeasonFields(season),
               outcome |-> "NoSeasonData", raised |-> FALSE, tables |-> TRUE,
               locals |-> NoLocals]}

\* The whole call: every result it can return for these provider answers.
get_player_data_package(player_name, season, prov) ==
    LET player_id == get_player_id(player_name, prov.directory)
        exc == FirstException(prov)
    IN  IF NotPlayerId(player_id)
        THEN {[report |-> error_report(player_name, season, <<"NotFound", player_name>>),
               outcome |-> "NotFound", raised |-> FALSE, tables |-> FALSE,
               locals |-> NoLocals]}
        ELSE IF exc # "none"
        THEN IF Caught(exc)
             THEN {[report |-> error_report(player_name, season, <<"Failed", exc>>),
                    outcome |-> "ProviderFailure", raised |-> FALSE, tables |-> FALSE,
                    locals |-> NoLocals]}
             ELSE {[report |-> <<>>, outcome |-> "Raised", raised |-> TRUE,
                    tables |-> FALSE, locals |-> NoLocals]}
        ELSE BuildReport(season, prov)

\* ------------------------------------------------------ analyze_style
HIGH_PTS == 25
HIGH_AST == 8
HIGH_REB == 10

\* stats.get(key, 0)
StatsGet(stats, key) == IF key \in DOMAIN stats THEN stats[key] ELSE Fin(0)

\* x >= c and x < c for a float x (tenths) and a whole number c
FGe(x, c) == (x.k = "fin" /\ x.v >= 10 * c) \/ x.k = "inf"
FLt(x, c) == (x.k = "fin" /\ x.v < 10 * c) \/ x.k = "ninf"
FGt(x, c) == (x.k = "fin" /\ x.v > 10 * c) \/ x.k = "inf"

analyze_style_strict(stats, position) ==
    LET pts == StatsGet(stats, "pts")
        ast == StatsGet(stats, "ast")
        reb == StatsGet(stats, "reb")
    IN  IF NA \in {pts, ast, reb} THEN "insufficient data"
        ELSE IF FGt(pts, HIGH_PTS) /\ FGt(ast, 6) /\ FGt(reb, 6)
             THEN "Elite All-Around Star"
        ELSE IF FGe(pts, HIGH_PTS) THEN "Volume Scorer"
        ELSE IF FGe(ast, HIGH_AST) /\ FGe(pts, 15) THEN "Playmaking Maestro"
        ELSE IF FGe(reb, HIGH_REB) /\ FLt(pts, 15) THEN "Rebounding/Defense Anchor"
        ELSE "Role Player"

analyze_style(stats, position) ==
    LET pts == StatsGet(stats, "pts")
        ast == StatsGet(stats, "ast")
        reb == StatsGet(stats, "reb")
    IN  IF NA \in {pts, ast, reb} THEN "insufficient data"
        ELSE IF FGe(pts, HIGH_PTS) /\ FGe(ast, 6) /\ FGe(reb, 6)
             THEN "Elite All-Around Star"
        ELSE IF FGe(pts, HIGH_PTS) THEN "Volume Scorer"
        ELSE IF FGe(ast, HIGH_AST) /\ FGe(pts, 15) THEN "Playmaking Maestro"
        ELSE IF FGe(reb, HIGH_REB) /\ FLt(pts, 15) THEN "Rebounding/Defense Anchor"
        ELSE "Role Player"

\* ------------------------------------ format_report_markdown_streamlit
\* '\n'.join(lines): the lines with a newline token between them
RECURSIVE JoinLines(_)
JoinLines(lines) ==
    IF lines = <<>> THEN <<>>
    ELSE IF Len(lines) = 1 THEN lines[1]
    ELSE lines[1] \o <<"\n">> \o JoinLines(Tail(lines))

\* lines 303-305
AwardsListMd(awards) ==
    LET kept == SelectSeq(awards, LAMBDA award : award # <<>>)
        awards_list_md == JoinLines([i \in 1..Len(kept) |-> <<"* ">> \o kept[i]])
    IN  IF awards_list_md = <<>> THEN <<"* zh_NoOfficialAwardRecord">>
        ELSE awards_list_md

\* The text is given by the values put into its template.
format_report_markdown_streamlit(data) ==
    IF "error" \in DOMAIN data /\ data.error # <<>>
    THEN [kind |-> "error", error |-> data.error]
    ELSE [kind |-> "report",
          name |-> data.name, team_abbr |-> data.team_abbr,
          team_full |-> data.team_full, games_played |-> data.games_played,
          precise_positions |-> data.precise_positions,
          core_style |->
              analyze_style(data, IF "position" \in DOMAIN data
                                  THEN data.position ELSE "N/A"),
          season |-> data.season, trend |-> data.trend_analysis,
          averages |-> [f \in {"min_per_game", "pts", "reb", "ast", "ato_ratio",
                                "fg_pct", "ft_pct"} |-> data[f]],
          awards_list_md |-> AwardsListMd(data.awards)]

\* ---------------------------------------------------------------- state
VARIABLES
    call,          \* the function being called, "done" once it has returned
    player_name,   \* arguments of the get_player_data_package call
    season,
    provider,      \* what the provider answers during that call
    report,        \* the report it returned
    outcome,       \* the return it left by: NotFound (181), ProviderFailure
                   \* (294), NoSeasonData or Report (290)
    raised,        \* an exception left the call
    tables,        \* the three raw tables were returned (None otherwise)
    locals,        \* avg_stats, the divisors used, delta_pts, delta_fg_pct
    style_in,      \* arguments of the analyze_style call
    style_out,     \* its core_style
    pos_in,        \* arguments of the get_precise_positions call
    pos_out,       \* the string it returned
    markdown       \* the text format_report_markdown_streamlit made of report

vars ==
    <<call, player_name, season, provider, report, outcome, raised, tables,
      locals, style_in, style_out, pos_in, pos_out, markdown>>

\* ------------------------------------------------------ provider answers
Name == <<"A", "b">>

Directory(raises) ==
    [raises |-> raises, players |-> <<[full_name |-> Name, id |-> 7]>>]

Info(raises, rows) == [raises |-> raises, rows |-> rows]

InfoRow(pos) == [DISPLAY_FIRST_LAST |-> Name, POSITION |-> pos]

Row(seas, team, gp, pts, reb, ast, tov, fg, ft) ==
    [SEASON_ID |-> seas, TEAM_ABBREVIATION |-> team, GP |-> gp, PTS |-> pts,
     REB |-> reb, AST |-> ast, STL |-> tov, BLK |-> pts, TOV |-> tov,
     FTA |-> reb, MIN |-> ast + pts, FG_PCT |-> fg, FT_PCT |-> ft]

CareerRow(gp, pts, reb, ast, fg) ==
    [GP |-> gp, PTS |-> pts, REB |-> reb, AST |-> ast, FG_PCT |-> fg]

Stats(raises, rows, career) == [raises |-> raises, rows |-> rows, career |-> career]

Awards(raises, rows) == [raises |-> raises, rows |-> rows]

AwardRow(desc, seas) == [DESCRIPTION |-> desc, SEASON |-> seas]

Prov(directory, info, stats, awards) ==
    [directory |-> directory, info |-> info, stats |-> stats, awards |-> awards]

NoProvider ==
    Prov(Directory(FALSE), Info(FALSE, <<>>), Stats(FALSE, <<>>, <<>>),
         Awards(FALSE, <<>>))

\* sequences of length at most n over S
SeqUpTo(S, n) == UNION {[1..m -> S] : m \in 0..n}

\* ---------------------------------------------------------------- Init
InitPkg(names, seasons, provs) ==
    /\ call = "get_player_data_package"
    /\ player_name \in names
    /\ season \in seasons
    /\ provider \in provs
    /\ report = <<>>
    /\ outcome = "pending"
    /\ raised = FALSE
    /\ tables = FALSE
    /\ locals = NoLocals
    /\ style_in = [stats |-> <<>>, position |-> ""]
    /\ style_out = ""
    /\ pos_in = [generic_position |-> "", translate_to_zh |-> FALSE]
    /\ pos_out = <<>>
    /\ markdown = <<>>

\* one season row with every total and games-played count, a career of zeros
AvgProviders ==
    {Prov(Directory(FALSE), Info(FALSE, <<InfoRow("Guard")>>),
          Stats(FALSE, <<Row("2023-24", "LAL", gp, pts, reb, ast, tov, fg, ft)>>,
                <<CareerRow(1, 0, 0, 0, 0)>>),
          Awards(FALSE, <<>>)) :
        gp \in 0..MaxGP, pts \in 0..MaxTotal, reb \in 0..MaxTotal,
        ast \in 0..MaxTotal, tov \in 0..MaxTotal,
        fg \in {0, 4725, 4731}, ft \in {15, 5000}}

InitAvg == InitPkg({Name}, {"2023-24"}, AvgProviders)

\* season and career averages one step apart around every whole delta:
\* per-game points and field-goal percentage of the season are the career
\* value plus 10*i + j tenths
TrendProviders ==
    {Prov(Directory(FALSE), Info(FALSE, <<InfoRow("Guard")>>),
          Stats(FALSE,
                <<Row("2023-24", "LAL", 10, cp + 10 * i + j, 0, 0, 0,
                      cf + 100 * m + 10 * n, 0)>>,
                <<CareerRow(10, cp, 0, 0, cf)>>),
          Awards(FALSE, <<>>)) :
        cp \in {10 * (MaxTrendPts + 1) + 1, 10 * (MaxTrendPts + 1) + 5},
        i \in (0 - MaxTrendPts)..MaxTrendPts, j \in {-1, 0, 1},
        cf \in {4500, 4510},
        m \in (0 - MaxTrendPct)..MaxTrendPct, n \in {-1, 0, 1}}

InitTrend == InitPkg({Name}, {"2023-24"}, TrendProviders)

\* every career-totals row, with and without games played
CareerProviders ==
    {Prov(Directory(FALSE), Info(FALSE, <<InfoRow("Guard")>>),
          Stats(FALSE, <<Row("2023-24", "LAL", gp, pts, 1, 2, 1, 4731, 5000)>>,
                <<CareerRow(cgp, cpts, creb, 1, 4500)>>),
          Awards(FALSE, <<>>)) :
        gp \in 1..MaxGP, pts \in 0..MaxTotal,
        cgp \in 0..MaxGP, cpts \in 0..MaxTotal, creb \in {0, 1}}

InitCareer == InitPkg({Name}, {"2023-24"}, CareerProviders)

\* every table of at most MaxRows rows over two seasons and three teams; a
\* TOT row carries more games and points than a team's row
RowChoices ==
    {Row(seas, team, IF team = "TOT" THEN gp + 2 ELSE gp,
         IF team = "TOT" THEN pts + 4 ELSE pts, 1, 2, 1, 4731, 5000) :
        seas \in {"2023-24", "2022-23"}, team \in {"TOT", "LAL", "MIA"},
        gp \in {1, 2}, pts \in {1, 3}}

RowsProviders ==
    {Prov(Directory(FALSE), Info(FALSE, <<InfoRow("Guard")>>),
          Stats(FALSE, rows, <<CareerRow(1, 0, 0, 0, 0)>>),
          Awards(FALSE, <<>>)) :
        rows \in SeqUpTo(RowChoices, MaxRows)}

InitRows == InitPkg({Name}, {"2023-24"}, RowsProviders)

\* every way the lookups fail or come back empty
ErrProviders ==
    {Prov(Directory(draises), Info(iraises, irows),
          Stats(sraises, rows, career), Awards(araises, arows)) :
        draises \in BOOLEAN, iraises \in BOOLEAN,
        irows \in {<<>>, <<InfoRow("Guard")>>, <<InfoRow("Wing")>>},
        sraises \in BOOLEAN,
        rows \in SeqUpTo({Row("2023-24", "LAL", gp, 3, 1, 2, 1, 4731, 5000) :
                              gp \in {0, 2}}
                         \cup {Row("2022-23", "MIA", 2, 1, 1, 2, 1, 4731, 5000)}, 1),
        career \in {<<>>, <<CareerRow(1, 0, 0, 0, 0)>>},
        araises \in BOOLEAN,
        arows \in {<<>>, <<AwardRow("MVP", <<"2", "0", "1", "9", "-", "2", "0">>)>>}}

InitErr ==
    InitPkg({Name, <<"a", "B">>, <<"b", "a">>}, {"2023-24"}, ErrProviders)

\* every awards table of at most MaxAwards rows, for a season with games,
\* without games and without rows, and for a name the directory lacks
AwardRowChoices ==
    {AwardRow("MVP", <<"2", "0", "1", "9", "-", "2", "0">>),
     AwardRow("All-Star", <<"2", "0", "2", "0", "-", "2", "1">>),
     AwardRow("MVP", <<"2", "0", "2", "0", "-", "2", "1">>),
     AwardRow("Rookie", <<"9", "9">>)}

AwardsProviders ==
    {Prov(Directory(FALSE), Info(FALSE, <<InfoRow("Guard")>>),
          Stats(FALSE, rows, <<CareerRow(1, 0, 0, 0, 0)>>),
          Awards(FALSE, arows)) :
        rows \in {<<>>, <<Row("2023-24", "LAL", 0, 0, 0, 0, 0, 0, 0)>>,
                  <<Row("2023-24", "LAL", 2, 3, 1, 2, 1, 4731, 5000)>>},
        arows \in SeqUpTo(AwardRowChoices, MaxAwards)}

InitAwards == InitPkg({Name, <<"b", "a">>}, {"2023-24"}, AwardsProviders)

\* analyze_style on every combination of values around its thresholds
StyleValues(c1, c2) ==
    {NA, PInf, NaN} \cup
    {Fin(10 * c + d) : c \in {c1, c2}, d \in {-1, 0, 1}} \cup {Fin(0)}

InitStyle ==
    /\ call = "analyze_style"
    /\ player_name = <<>>
    /\ season = ""
    /\ provider = NoProvider
    /\ report = <<>>
    /\ outcome = "none"
    /\ raised = FALSE
    /\ tables = FALSE
    /\ locals = NoLocals
    /\ \E pts \in StyleValues(15, HIGH_PTS), ast \in StyleValues(6, HIGH_AST),
          reb \in StyleValues(6, HIGH_REB), position \in {"Guard", "Center", "N/A"} :
           style_in = [stats |-> [pts |-> pts, ast |-> ast, reb |-> reb],
                       position |-> position]
    /\ style_out = ""
    /\ pos_in = [generic_position |-> "", translate_to_zh |-> FALSE]
    /\ pos_out = <<>>
    /\ markdown = <<>>

\* get_precise_positions on the fourteen codes of its table and on codes the
\* table lacks, in both modes
PositionCodes ==
    DOMAIN position_map \cup
    {"Wing", "guard", "GUARD", "center", "Point Guard", "PG", "SG", "SF", "PF",
     "G-C", "C-G", "Forward-Forward", "N/A", ""}

InitPos ==
    /\ call = "get_precise_positions"
    /\ player_name = <<>>
    /\ season = ""
    /\ provider = NoProvider
    /\ report = <<>>
    /\ outcome = "none"
    /\ raised = FALSE
    /\ tables = FALSE
    /\ locals = NoLocals
    /\ style_in = [stats |-> <<>>, position |-> ""]
    /\ style_out = ""
    /\ \E g \in PositionCodes, z \in BOOLEAN :
           pos_in = [generic_position |-> g, translate_to_zh |-> z]
    /\ pos_out = <<>>
    /\ markdown = <<>>

\* ------------------------------------------------------------- actions
GetPlayerDataPackage ==
    /\ call = "get_player_data_package"
    /\ \E r \in get_player_data_package(player_name, season, provider) :
        /\ report' = r.report
        /\ outcome' = r.outcome
        /\ raised' = r.raised
        /\ tables' = r.tables
        /\ locals' = r.locals
    /\ call' = "done"
    /\ UNCHANGED <<player_name, season, provider, style_in, style_out, pos_in,
                   pos_out, markdown>>

AnalyzeStyle ==
    /\ call = "analyze_style"
    /\ style_out' = analyze_style(style_in.stats, style_in.position)
    /\ call' = "done"
    /\ UNCHANGED <<player_name, season, provider, report, outcome, raised,
                   tables, locals, style_in, pos_in, pos_out, markdown>>

GetPrecisePositions ==
    /\ call = "get_precise_positions"
    /\ pos_out' = get_precise_positions(pos_in.generic_position, pos_in.translate_to_zh)
    /\ call' = "done"
    /\ UNCHANGED <<player_name, season, provider, report, outcome, raised,
                   tables, locals, style_in, style_out, pos_in, markdown>>

\* lines 424-429: the page renders the report the package call returned
FormatReport ==
    /\ call = "done"
    /\ outcome \in {"NotFound", "ProviderFailure", "NoSeasonData", "Report"}
    /\ markdown' = format_report_markdown_streamlit(report)
    /\ call' = "rendered"
    /\ UNCHANGED <<player_name, season, provider, report, outcome, raised,
                   tables, locals, style_in, style_out, pos_in, pos_out>>

Next == GetPlayerDataPackage \/ AnalyzeStyle \/ FormatReport \/ GetPrecisePositions

SpecAvg == InitAvg /\ [][GetPlayerDataPackage]_vars
SpecTrend == InitTrend /\ [][GetPlayerDataPackage]_vars
SpecCareer == InitCareer /\ [][GetPlayerDataPackage]_vars
SpecRows == InitRows /\ [][GetPlayerDataPackage]_vars
SpecErr == InitErr /\ [][GetPlayerDataPackage]_vars
SpecStyle == InitStyle /\ [][AnalyzeStyle]_vars
SpecPos == InitPos /\ [][GetPrecisePositions]_vars
SpecAwards == InitAwards /\ [][GetPlayerDataPackage \/ FormatReport]_vars
Spec == (InitErr \/ InitStyle \/ InitPos) /\ [][Next]_vars

\* ------------------------------------------------------------- claims
\* What the claims speak of, read off the call's inputs.
Done == call = "done"

Found ==
    /\ ~provider.directory.raises
    /\ \E i \in 1..Len(provider.directory.players) :
           Lower(provider.directory.players[i].full_name) = Lower(player_name)

CallsSucceed ==
    /\ Found
    /\ ~provider.info.raises /\ provider.info.rows # <<>>
    /\ ~provider.stats.raises
    /\ ~provider.awards.raises

RequestedRows ==
    SelectSeq(provider.stats.rows, LAMBDA r : r.SEASON_ID = season)

\* x is a value nearest to num/den among the multiples of the unit
Nearest(x, num, den) ==
    /\ x.k = "fin"
    /\ 2 * (num - den * x.v) <= den
    /\ 2 * (den * x.v - num) <= den

StatFields ==
    {"pts", "reb", "ast", "stl", "blk", "tov", "ato_ratio", "fg_pct", "ft_pct",
     "fta_per_game", "min_per_game"}

AllSentinel ==
    /\ report.games_played = 0
    /\ \A f \in StatFields : report[f] = NA
    /\ report.trend_analysis.trend_status = "N/A"
    /\ \A f \in {"delta_pts", "delta_reb", "delta_ast", "delta_fg_pct"} :
           report.trend_analysis[f] = NA

\* C1: when the season has a row and the row used for averaging has GP = N > 0,
\* every per-game field of the report is that row's total divided by N rounded
\* to one decimal, fg_pct and ft_pct are the stored fraction times 100 rounded
\* to one decimal, and games_played is N.
C1_PerGameAverages ==
    (Done /\ locals.avg_stats # <<>> /\ locals.avg_stats[1].GP > 0) =>
        LET row == locals.avg_stats[1]
            N == row.GP
        IN  /\ ~raised
            /\ report.games_played = N
            /\ Nearest(report.pts, 10 * row.PTS, N)
            /\ Nearest(report.reb, 10 * row.REB, N)
            /\ Nearest(report.ast, 10 * row.AST, N)
            /\ Nearest(report.stl, 10 * row.STL, N)
            /\ Nearest(report.blk, 10 * row.BLK, N)
            /\ Nearest(report.tov, 10 * row.TOV, N)
            /\ Nearest(report.fta_per_game, 10 * row.FTA, N)
            /\ Nearest(report.min_per_game, 10 * row.MIN, N)
            /\ Nearest(report.fg_pct, row.FG_PCT, 10)
            /\ Nearest(report.ft_pct, row.FT_PCT, 10)

C1_Witness ==
    /\ Done /\ outcome = "Report"
    /\ locals.avg_stats[1].GP = 3 /\ locals.avg_stats[1].PTS = 2
    /\ locals.avg_stats[1].FG_PCT = 4731
    /\ report.pts = Fin(7) /\ report.fg_pct = Fin(473) /\ report.games_played = 3

\* C2: for a found player, when the requested season has no row or the row
\* used for averaging has GP <= 0, the call returns without raising a report
\* with games_played 0, every averaged field 'N/A' and all five entries of
\* trend_analysis 'N/A'.
C2_NoGamesAllSentinel ==
    (Done /\ Found /\ ~provider.stats.raises
          /\ (RequestedRows = <<>> \/ Last(RequestedRows).GP <= 0)) =>
        (~raised /\ AllSentinel)

C2_Witness ==
    /\ Done /\ outcome = "NoSeasonData"
    /\ RequestedRows # <<>> /\ Last(RequestedRows).GP = 0
    /\ AllSentinel

\* C3: whatever the order of the rows of the requested season, the averages
\* come from the TOT row when there is one, and from the last row otherwise.
C3_AveragesFromTotRow ==
    (Done /\ CallsSucceed /\ RequestedRows # <<>> /\ Last(RequestedRows).GP > 0) =>
        IF \E i \in 1..Len(RequestedRows) : RequestedRows[i].TEAM_ABBREVIATION = "TOT"
        THEN /\ locals.avg_stats # <<>>
             /\ locals.avg_stats[1].TEAM_ABBREVIATION = "TOT"
        ELSE locals.avg_stats = <<Last(RequestedRows)>>

\* The trend label the ordered rules give to a pair of deltas.
Rule1(dp, df) == Ge(dp, 30) /\ Ge(df, -10)
Rule2(dp, df) == Ge(dp, 30) /\ Lt(df, -30)
Rule3(dp, df) == AbsLt(dp, 10) /\ Ge(df, 10)
Rule4(dp, df) == Lt(dp, -30)

TrendComputed == Done /\ outcome = "Report" /\ locals.delta_pts.k # "none"

Exactly(d, tenths) == d = [k |-> "fin", v |-> tenths, e |-> 0]

\* C4: trend_status is the label of the first matching rule, in the order
\* Ascending, Inefficient Volume, Efficiency Spike, Decline, Fluctuating; and
\* delta_pts = 3.0 with delta_fg_pct = -1.0 gives Ascending.
C4_FirstMatchingRule ==
    TrendComputed =>
        LET dp == locals.delta_pts
            df == locals.delta_fg_pct
            st == report.trend_analysis.trend_status
        IN  /\ Rule1(dp, df) => st = "Significant Ascend"
            /\ (~Rule1(dp, df) /\ Rule2(dp, df)) => st = "Inefficient Volume"
            /\ (~Rule1(dp, df) /\ ~Rule2(dp, df) /\ Rule3(dp, df)) =>
                   st = "Efficiency Spike"
            /\ (~Rule1(dp, df) /\ ~Rule2(dp, df) /\ ~Rule3(dp, df) /\ Rule4(dp, df)) =>
                   st = "Performance Decline"
            /\ (~Rule1(dp, df) /\ ~Rule2(dp, df) /\ ~Rule3(dp, df) /\ ~Rule4(dp, df)) =>
                   st = "Fluctuating Performance"
            /\ (Exactly(dp, 30) /\ Exactly(df, -10)) => st = "Significant Ascend"

C4_Witness ==
    /\ TrendComputed
    /\ Exactly(locals.delta_pts, 30) /\ Exactly(locals.delta_fg_pct, -10)
    /\ report.trend_analysis.trend_status = "Significant Ascend"

\* C5 as claimed: delta_pts = 3.0 and delta_fg_pct = -3.0 give Ascending.
C5_AscendingAtMinusThree ==
    (TrendComputed /\ Exactly(locals.delta_pts, 30) /\ Exactly(locals.delta_fg_pct, -30)) =>
        report.trend_analysis.trend_status = "Significant Ascend"

\* C5 amended: delta_pts = 3.0 and delta_fg_pct = -3.0 give Fluctuating:
\* rule 1 needs delta_fg_pct >= -1.0 and rule 2 needs it strictly below -3.0.
C5_FluctuatingAtMinusThree ==
    (TrendComputed /\ Exactly(locals.delta_pts, 30) /\ Exactly(locals.delta_fg_pct, -30)) =>
        report.trend_analysis.trend_status = "Fluctuating Performance"

C5_Witness ==
    /\ TrendComputed
    /\ Exactly(locals.delta_pts, 30) /\ Exactly(locals.delta_fg_pct, -30)
    /\ report.trend_analysis.trend_status = "Fluctuating Performance"

\* C6: analyze_style depends on pts, ast and reb only; a non-numeric value
\* among them gives 'insufficient data', otherwise the first matching rule
\* of Elite, Volume Scorer, Playmaking Maestro, Rebounding/Defense Anchor,
\* Role Player; pts = 25, ast = 6, reb = 6 is Elite and pts < 25 never is.
C6_StyleRules ==
    (Done /\ style_out # "") =>
        LET pts == style_in.stats.pts
            ast == style_in.stats.ast
            reb == style_in.stats.reb
            elite == FGe(pts, 25) /\ FGe(ast, 6) /\ FGe(reb, 6)
            scorer == FGe(pts, 25)
            maestro == FGe(ast, 8) /\ FGe(pts, 15)
            anchor == FGe(reb, 10) /\ FLt(pts, 15)
        IN  IF pts = NA \/ ast = NA \/ reb = NA
            THEN style_out = "insufficient data"
            ELSE /\ elite => style_out = "Elite All-Around Star"
                 /\ (~elite /\ scorer) => style_out = "Volume Scorer"
                 /\ (~scorer /\ maestro) => style_out = "Playmaking Maestro"
                 /\ (~scorer /\ ~maestro /\ anchor) =>
                        style_out = "Rebounding/Defense Anchor"
                 /\ (~scorer /\ ~maestro /\ ~anchor) => style_out = "Role Player"
                 /\ (pts = Fin(250) /\ ast = Fin(60) /\ reb = Fin(60)) =>
                        style_out = "Elite All-Around Star"
                 /\ (pts.k = "fin" /\ pts.v < 250) =>
                        style_out # "Elite All-Around Star"

C6_Witness ==
    /\ Done
    /\ style_in.stats = [pts |-> Fin(250), ast |-> Fin(60), reb |-> Fin(60)]
    /\ style_in.position = "Center"
    /\ style_out = "Elite All-Around Star"

IsErrorReport ==
    /\ ~raised
    /\ "error" \in DOMAIN report
    /\ report.error # <<>>
    /\ AllSentinel

\* C7 as claimed: no case-insensitive match, a provider call that raises, or
\* an empty table from any provider call gives the all-sentinel error report.
C7_ErrorOnAnyEmptyTable ==
    (Done /\ (\/ ~Found
              \/ provider.info.raises \/ provider.stats.raises
              \/ provider.awards.raises
              \/ provider.info.rows = <<>> \/ provider.stats.rows = <<>>
              \/ provider.stats.career = <<>> \/ provider.awards.rows = <<>>)) =>
        IsErrorReport

\* C7 amended: no case-insensitive match, a provider call that raises, or an
\* empty player-info table gives, without raising, a report whose error is
\* non-empty and whose statistical and trend fields are all sentinels.
C7_ErrorOnLookupFailure ==
    (Done /\ (\/ ~Found
              \/ provider.info.raises \/ provider.stats.raises
              \/ provider.awards.raises
              \/ provider.info.rows = <<>>)) =>
        (IsErrorReport /\ report.name = player_name /\ ~tables)

C7_Witness ==
    /\ Done /\ Found
    /\ ~provider.info.raises /\ provider.info.rows # <<>>
    /\ ~provider.stats.raises /\ provider.awards.raises
    /\ RequestedRows # <<>> /\ Last(RequestedRows).GP > 0
    /\ report.error = <<"Failed", "awards">>
    /\ AllSentinel

\* C8: with the player found and the season without rows or without games,
\* the report has no error entry, carries the provider's name and position,
\* has every performance field a sentinel, and its season label is the
\* annotated 'no data' text, not the plain label.
C8_NoSeasonDataDistinct ==
    (Done /\ CallsSucceed /\ (RequestedRows = <<>> \/ Last(RequestedRows).GP <= 0)) =>
        /\ ~raised
        /\ ~("error" \in DOMAIN report)
        /\ report.name = provider.info.rows[1].DISPLAY_FIRST_LAST
        /\ report.position = provider.info.rows[1].POSITION
        /\ AllSentinel
        /\ report.season = <<"zh_No", season, "zh_SeasonData">>
        /\ report.season # <<season>>

C8_Witness ==
    /\ Done /\ CallsSucceed /\ RequestedRows = <<>>
    /\ provider.stats.rows # <<>>
    /\ player_name # report.name
    /\ report.name = Name /\ report.position = "Wing"
    /\ AllSentinel

\* C9: with games played, ato_ratio is 'N/A' when the averaged turnovers are
\* zero, and otherwise the averaged assists over the averaged turnovers
\* rounded to two decimals.
C9_AtoRatioSentinelOnZero ==
    (Done /\ outcome = "Report") =>
        IF report.tov.v = 0
        THEN report.ato_ratio = NA
        ELSE Nearest(report.ato_ratio, 100 * report.ast.v, report.tov.v)

\* C10: no per-game average, of the season or of the career, is computed by
\* dividing by a games-played value of zero.
C10_NoDivisionByZeroGames ==
    Done => \A i \in 1..Len(locals.divisors) : locals.divisors[i] # 0

\* s[:4]
FirstFour(s) == [j \in 1..(IF Len(s) < 4 THEN Len(s) ELSE 4) |-> s[j]]

\* C11: the awards list of the report has one string per award row, in row
\* order, each the description followed by the first four characters of the
\* season label in parentheses (MVP with 2019-20 gives 'MVP (2019)'); an
\* empty awards table gives an empty list, which the report text renders as
\* the 'no awards' placeholder.
C11_AwardStrings ==
    (call \in {"done", "rendered"} /\ CallsSucceed) =>
        LET rows == provider.awards.rows
        IN  /\ Len(report.awards) = Len(rows)
            /\ \A i \in 1..Len(rows) :
                   /\ report.awards[i] =
                          <<rows[i].DESCRIPTION, " (">> \o FirstFour(rows[i].SEASON)
                          \o <<")">>
                   /\ (rows[i] = AwardRow("MVP", <<"2", "0", "1", "9", "-", "2", "0">>)) =>
                          report.awards[i] = <<"MVP", " (", "2", "0", "1", "9", ")">>
            /\ (rows = <<>>) => report.awards = <<>>
            /\ (rows = <<>> /\ call = "rendered") =>
                   /\ markdown.kind = "report"
                   /\ markdown.awards_list_md = <<"* zh_NoOfficialAwardRecord">>

C11_Witness ==
    /\ call = "rendered" /\ CallsSucceed
    /\ provider.awards.rows =
           <<AwardRow("All-Star", <<"2", "0", "2", "0", "-", "2", "1">>),
             AwardRow("MVP", <<"2", "0", "1", "9", "-", "2", "0">>)>>
    /\ report.awards = <<<<"All-Star", " (", "2", "0", "2", "0", ")">>,
                         <<"MVP", " (", "2", "0", "1", "9", ")">>>>
    /\ markdown.awards_list_md =
           <<"* ", "All-Star", " (", "2", "0", "2", "0", ")", "\n",
             "* ", "MVP", " (", "2", "0", "1", "9", ")">>

\* The precise positions the claim lists for each full coarse name, and the
\* full name each abbreviation stands for.
PreciseList(full) ==
    CASE full = "Guard" -> <<"PG", "SG">>
      [] full = "Forward" -> <<"SF", "PF">>
      [] full = "Center" -> <<"C">>
      [] full = "Guard-Forward" -> <<"PG", "SG", "SF">>
      [] full = "Forward-Guard" -> <<"SG", "SF", "PF">>
      [] full = "Forward-Center" -> <<"SF", "PF", "C">>
      [] full = "Center-Forward" -> <<"PF", "C", "SF">>

FullNameOf(code) ==
    CASE code = "G" -> "Guard"
      [] code = "F" -> "Forward"
      [] code = "C" -> "Center"
      [] code = "G-F" -> "Guard-Forward"
      [] code = "F-G" -> "Forward-Guard"
      [] code = "F-C" -> "Forward-Center"
      [] code = "C-F" -> "Center-Forward"
      [] OTHER -> code

RecognizedCodes ==
    {"Guard", "Forward", "Center", "Guard-Forward", "Forward-Guard",
     "Forward-Center", "Center-Forward", "G", "F", "C", "G-F", "F-G", "F-C", "C-F"}

\* C12: get_precise_positions gives each of the 14 recognized codes its
\* ordered precise-position list (the items in order, separated by ", ", as
\* codes in the plain mode and as display names in the localized mode) and
\* returns every other code unchanged in both modes.
C12_PrecisePositions ==
    (Done /\ pos_in.generic_position \in PositionCodes /\ outcome = "none"
          /\ style_out = "") =>
        LET code == pos_in.generic_position
        IN  IF code \in RecognizedCodes
            THEN LET l == PreciseList(FullNameOf(code))
                 IN  /\ Len(pos_out) = 2 * Len(l) - 1
                     /\ \A i \in 1..Len(l) :
                            pos_out[2 * i - 1] =
                                IF pos_in.translate_to_zh THEN zh_map[l[i]] ELSE l[i]
                     /\ \A i \in 1..(Len(l) - 1) : pos_out[2 * i] = ", "
            ELSE pos_out = <<code>>

C12_Witness ==
    /\ Done
    /\ pos_in = [generic_position |-> "C-F", translate_to_zh |-> FALSE]
    /\ pos_out = <<"PF", ", ", "C", ", ", "SF">>

\* C13: in a report built from a season that has rows but no TOT row, also
\* with several such rows, team_abbr and team_full name the team of a row
\* whose totals produced the averages: some row of the season has the team
\* shown, the games_played shown and the totals the per-game values come from.
C13_TeamOfAveragedRow ==
    (/\ Done
     /\ outcome = "Report"
     /\ RequestedRows # <<>>
     /\ \A i \in 1..Len(RequestedRows) : RequestedRows[i].TEAM_ABBREVIATION # "TOT"
     /\ report.games_played > 0) =>
        \E i \in 1..Len(RequestedRows) :
            LET row == RequestedRows[i]
            IN  /\ report.team_abbr = <<TeamZh(row.TEAM_ABBREVIATION)>>
                /\ report.team_full = <<TeamZh(row.TEAM_ABBREVIATION)>>
                /\ report.games_played = row.GP
                /\ Nearest(report.pts, 10 * row.PTS, row.GP)

\* The four rules by number, and the label a first-match evaluation gives when
\* the rules are tried in the order of a permutation of 1..4.
RuleHolds(n, dp, df) ==
    CASE n = 1 -> Rule1(dp, df)
      [] n = 2 -> Rule2(dp, df)
      [] n = 3 -> Rule3(dp, df)
      [] n = 4 -> Rule4(dp, df)

RuleLabel(n) ==
    CASE n = 1 -> "Significant Ascend"
      [] n = 2 -> "Inefficient Volume"
      [] n = 3 -> "Efficiency Spike"
      [] n = 4 -> "Performance Decline"

RuleOrders ==
    {o \in [1..4 -> 1..4] : \A i, j \in 1..4 : (i # j) => (o[i] # o[j])}

FirstMatchIn(o, dp, df) ==
    IF \E j \in 1..4 : RuleHolds(o[j], dp, df)
    THEN LET j == CHOOSE j \in 1..4 :
                      /\ RuleHolds(o[j], dp, df)
                      /\ \A i \in 1..(j - 1) : ~RuleHolds(o[i], dp, df)
         IN  RuleLabel(o[j])
    ELSE "Fluctuating Performance"

\* C14: for the deltas of every computed trend at most one of the conditions
\* of rules 1 to 4 holds, and trying the four rules in any order, with
\* Fluctuating as the default, gives the trend_status of the report.
C14_RulesDisjoint ==
    TrendComputed =>
        LET dp == locals.delta_pts
            df == locals.delta_fg_pct
        IN  /\ \A m, n \in 1..4 :
                   (m # n) => ~(RuleHolds(m, dp, df) /\ RuleHolds(n, dp, df))
            /\ \A o \in RuleOrders :
                   FirstMatchIn(o, dp, df) = report.trend_analysis.trend_status

C14_Witness ==
    /\ TrendComputed
    /\ Rule4(locals.delta_pts, locals.delta_fg_pct)
    /\ Ge(locals.delta_fg_pct, 10)
    /\ report.trend_analysis.trend_status = "Performance Decline"
    /\ FirstMatchIn([i \in 1..4 |-> 5 - i], locals.delta_pts, locals.delta_fg_pct)
           = "Performance Decline"

====
